---- MODULE Spec2Model ----
(***************************************************************************)
(* Text layout (scripts/gen_png_frames.py) and text chunking               *)
(* (scripts/tts_openai.py) of the 2026-calendar repository.                *)
(*                                                                         *)
(* A Python str is modelled as a sequence of codepoints; a codepoint is a  *)
(* short TLA+ string naming it.  The functions of the source are pure, so  *)
(* each is an operator computed the way the code computes it, and each     *)
(* specification draws the function's inputs in Init and applies it in an  *)
(* action.                                                                 *)
(***************************************************************************)
EXTENDS Integers, Sequences, FiniteSets, TLC

VARIABLES pc,           \* which call has returned in this behaviour
          text,         \* the str handed to the function under study
          tokens,       \* tokenize_mixed_text's return value
          max_width,    \* wrap_tokens_to_width / fit_text_in_box: box_w
          box_h,        \* fit_text_in_box: box_h
          start_size,   \* fit_text_in_box: start_size (wrap: the font size)
          min_size,     \* fit_text_in_box: min_size
          line_spacing, \* fit_text_in_box / draw_lines: line_spacing
          lines,        \* the lines returned by wrap / fit, or given to draw_lines
          font,         \* the size of the font returned by fit / given to draw_lines
          box,          \* draw_lines: box = (x, y, w, h)
          align,        \* draw_lines: align
          placed,       \* draw_lines: the draw.text calls made, in order
          limit,        \* smart_split_text: limit
          chunks        \* smart_split_text's return value

vars == <<pc, text, tokens, max_width, box_h, start_size, min_size, line_spacing,
          lines, font, box, align, placed, limit, chunks>>

-----------------------------------------------------------------------------
(* Bounds of the model.                                                    *)

\* longest text handed to the tokenizer and to the wrapper, in codepoints
MaxLen == 5
\* longest text handed to fit_text_in_box, in codepoints
MaxFitLen == 3
\* largest font size
MaxSize == 3
\* largest box width and box height, in pixels
MaxBox == 3

\* most lines handed to draw_lines
MaxDrawLines == 3
\* longest text handed to smart_split_text, in codepoints
MaxSplitLen == 7
\* largest limit of smart_split_text
MaxLimit == 4

-----------------------------------------------------------------------------
(* Codepoints.                                                             *)

\* an ASCII letter or digit: [A-Za-z0-9]
LATIN == "a"
\* a CJK ideograph: [一-鿿]
CJK == "zh"
\* U+2026 HORIZONTAL ELLIPSIS, the `ell` of fit_text_in_box; a punctuation codepoint
ELL == "..."
\* a sentence terminator: one of the class [。！？.!?] of smart_split_text
DOT == "."
SP == " "
NL == "\n"
CR == "\r"
TAB == "\t"

\* Python's str.strip()/rstrip() whitespace and the regex class \s
IsSpace(ch) == ch \in {SP, NL, CR, TAB}

\* the three alternatives of the regex of tokenize_mixed_text
CharClass(ch) ==
    IF ch = CJK THEN "cjk"
    ELSE IF ch = LATIN THEN "alnum"
    ELSE IF ~IsSpace(ch) THEN "other"
    ELSE "space"

\* all strings over alphabet `alpha` of at most n codepoints
StringsUpTo(alpha, n) == UNION {[1..k -> alpha] : k \in 0..n}

-----------------------------------------------------------------------------
(* Python str helpers.                                                     *)

\* s[i:] (1-based i)
From(s, i) == SubSeq(s, i, Len(s))

\* s.replace("\r\n", "\n").replace("\r", "\n")
RECURSIVE ReplaceCRLF(_)
ReplaceCRLF(s) ==
    IF s = <<>> THEN <<>>
    ELSE IF Head(s) = CR /\ Len(s) >= 2 /\ s[2] = NL
         THEN <<NL>> \o ReplaceCRLF(From(s, 3))
         ELSE <<Head(s)>> \o ReplaceCRLF(Tail(s))

ReplaceCR(s) == [i \in 1..Len(s) |-> IF s[i] = CR THEN NL ELSE s[i]]

NormalizeNewlines(s) == ReplaceCR(ReplaceCRLF(s))

\* s.split(sep) for a one-codepoint sep: always at least one piece, empty pieces kept
RECURSIVE Split(_, _)
Split(s, sep) ==
    IF \A i \in 1..Len(s) : s[i] # sep THEN <<s>>
    ELSE LET i == CHOOSE j \in 1..Len(s) : s[j] = sep /\ \A k \in 1..(j-1) : s[k] # sep
         IN  <<SubSeq(s, 1, i - 1)>> \o Split(From(s, i + 1), sep)

\* s.rstrip()
RECURSIVE RStrip(_)
RStrip(s) ==
    IF s # <<>> /\ IsSpace(s[Len(s)]) THEN RStrip(SubSeq(s, 1, Len(s) - 1)) ELSE s

\* s.lstrip()
RECURSIVE LStrip(_)
LStrip(s) == IF s # <<>> /\ IsSpace(Head(s)) THEN LStrip(Tail(s)) ELSE s

\* s.strip()
Strip(s) == LStrip(RStrip(s))

\* the concatenation of a sequence of strings
RECURSIVE Concat(_)
Concat(ss) == IF ss = <<>> THEN <<>> ELSE Head(ss) \o Concat(Tail(ss))

-----------------------------------------------------------------------------
(* tokenize_mixed_text                                                     *)

\* length of the longest prefix of w whose codepoints are all of class c
RECURSIVE RunLen(_, _)
RunLen(w, c) ==
    IF w # <<>> /\ CharClass(Head(w)) = c THEN 1 + RunLen(Tail(w), c) ELSE 0

\* re.findall(r"[一-鿿]+|[A-Za-z0-9]+|[^\sA-Za-z0-9一-鿿]+", word):
\* the maximal runs of one class; a codepoint of \s matches no alternative
RECURSIVE FindAll(_)
FindAll(w) ==
    IF w = <<>> THEN <<>>
    ELSE IF IsSpace(Head(w)) THEN FindAll(Tail(w))
    ELSE LET n == RunLen(w, CharClass(Head(w)))
         IN  <<SubSeq(w, 1, n)>> \o FindAll(From(w, n + 1))

\* the `for i, word in enumerate(words)` loop, from word i on
RECURSIVE WordTokens(_, _)
WordTokens(words, i) ==
    IF i > Len(words) THEN <<>>
    ELSE (IF words[i] # <<>> THEN FindAll(words[i]) ELSE <<>>)
         \o (IF i < Len(words) THEN << <<SP>> >> ELSE <<>>)
         \o WordTokens(words, i + 1)

\* the body of `for para in s.split("\n")`
ParaTokens(para) ==
    IF para = <<>> THEN << <<NL>> >>
    ELSE WordTokens(Split(para, SP), 1) \o << <<NL>> >>

RECURSIVE ParasTokens(_)
ParasTokens(paras) ==
    IF paras = <<>> THEN <<>> ELSE ParaTokens(Head(paras)) \o ParasTokens(Tail(paras))

tokenize_mixed_text(s) ==
    LET toks == ParasTokens(Split(NormalizeNewlines(s), NL))
    IN  IF toks # <<>> THEN SubSeq(toks, 1, Len(toks) - 1) ELSE toks

-----------------------------------------------------------------------------
(* wrap_tokens_to_width                                                    *)

\* draw.textbbox((0, 0), ch, font=font) for one codepoint: its advance, in pixels,
\* at font size `size` (a fixed-pitch font: half an em for Latin and the space,
\* a full em for CJK and the ellipsis, with an em of 2 * size pixels)
CharW(ch, size) == IF ch \in {CJK, ELL} THEN 2 * size ELSE size

\* text_w(t): 0 for the empty string, else the width of t's bounding box
RECURSIVE text_w(_, _)
text_w(t, size) ==
    IF t = <<>> THEN 0 ELSE CharW(Head(t), size) + text_w(Tail(t), size)

\* FitsWidth measuring the text without its last codepoint (the buffer as it was
\* before the addition)
FitsWidthStale(t, size, max_w) ==
    text_w(SubSeq(t, 1, Len(t) - 1), size) <= max_w

\* the tests `text_w(cand) <= max_width` and `text_w(c2) <= max_width`
FitsWidth(t, size, max_w) == text_w(t, size) <= max_w

\* HasContent taking every buffer, the empty one too, for a line
HasContentAlways(s) == TRUE

\* the truth of `cur.strip()` and `line.strip()`
HasContent(s) == Strip(s) # <<>>

\* `if cur.strip(): lines.append(cur.rstrip())`
FlushLine(ls, cur) == IF HasContent(cur) THEN Append(ls, RStrip(cur)) ELSE ls

\* HardBreak restarting the buffer empty, so that the codepoint that did not fit
\* is lost
RECURSIVE HardBreakDrop(_, _, _, _, _)
HardBreakDrop(tok, size, max_w, ls, buf) ==
    IF tok = <<>> THEN [lines |-> ls, cur |-> buf]
    ELSE LET c2 == buf \o <<Head(tok)>>
         IN  IF text_w(c2, size) <= max_w
             THEN HardBreakDrop(Tail(tok), size, max_w, ls, c2)
             ELSE HardBreakDrop(Tail(tok), size, max_w,
                                IF buf # <<>> THEN Append(ls, buf) ELSE ls, <<>>)

\* "Break long token character by character": the `for ch in tok` loop, with
\* the lines appended so far and the buffer buf; returns lines and the final buf
RECURSIVE HardBreak(_, _, _, _, _)
HardBreak(tok, size, max_w, ls, buf) ==
    IF tok = <<>> THEN [lines |-> ls, cur |-> buf]
    ELSE LET ch == Head(tok)
             c2 == buf \o <<ch>>
         IN  IF FitsWidth(c2, size, max_w)
             THEN HardBreak(Tail(tok), size, max_w, ls, c2)
             ELSE HardBreak(Tail(tok), size, max_w,
                            IF buf # <<>> THEN Append(ls, buf) ELSE ls, <<ch>>)

\* one iteration of `for tok in tokens`, from lines ls and buffer cur
WrapToken(tok, size, max_w, ls, cur) ==
    IF tok = <<NL>>
    THEN [lines |-> FlushLine(ls, cur), cur |-> <<>>]
    ELSE LET cand == cur \o tok
         IN  IF FitsWidth(cand, size, max_w)
             THEN [lines |-> ls, cur |-> cand]
             ELSE LET ls1  == FlushLine(ls, cur)
                      cur1 == IF HasContent(cur) THEN <<>> ELSE cur
                  IN  IF tok = <<SP>>
                      THEN [lines |-> ls1, cur |-> cur1]
                      ELSE IF text_w(tok, size) > max_w
                      THEN HardBreak(tok, size, max_w, ls1, <<>>)
                      ELSE [lines |-> ls1, cur |-> tok]

\* the `for tok in tokens` loop
RECURSIVE WrapLoop(_, _, _, _, _)
WrapLoop(toks, size, max_w, ls, cur) ==
    IF toks = <<>> THEN [lines |-> ls, cur |-> cur]
    ELSE LET st == WrapToken(Head(toks), size, max_w, ls, cur)
         IN  WrapLoop(Tail(toks), size, max_w, st.lines, st.cur)

wrap_tokens_to_width(toks, size, max_w) ==
    LET st == WrapLoop(toks, size, max_w, <<>>, <<>>)
    IN  SelectSeq(FlushLine(st.lines, st.cur), HasContent)

-----------------------------------------------------------------------------
(* fit_text_in_box                                                         *)

\* the step of range(start_size, min_size - 1, -2)
SizeStep == 2

\* font.getmetrics() of the font loaded at `size`
Ascent(size) == size
Descent(size) == size \div 4

\* line_h = ascent + descent + line_spacing
LineH(size, spacing) == Ascent(size) + Descent(size) + spacing

Max(a, b) == IF a >= b THEN a ELSE b
Min(a, b) == IF a <= b THEN a ELSE b

\* FitsHeight with a strict comparison
FitsHeightStrict(n_lines, line_h, bh) == n_lines * line_h < bh

\* `if total_h <= box_h`
FitsHeight(n_lines, line_h, bh) == n_lines * line_h <= bh

\* EllipsisTrim measuring `last` without the ellipsis
RECURSIVE EllipsisTrimNoEll(_, _, _)
EllipsisTrimNoEll(last, size, bw) ==
    IF text_w(last, size) <= bw \/ last = <<>> THEN last
    ELSE EllipsisTrimNoEll(SubSeq(last, 1, Len(last) - 1), size, bw)

\* the `while True` loop that strips `last` until last + ell fits or last is empty
RECURSIVE EllipsisTrim(_, _, _)
EllipsisTrim(last, size, bw) ==
    IF text_w(last \o <<ELL>>, size) <= bw \/ last = <<>> THEN last
    ELSE EllipsisTrim(SubSeq(last, 1, Len(last) - 1), size, bw)

\* MaxLines without the floor of 1
MaxLinesNoFloor(bh, line_h) == bh \div line_h

\* max_lines = max(1, box_h // line_h)
MaxLines(bh, line_h) == Max(1, bh \div line_h)

\* KeptLines keeping the last max_lines lines: lines[-max_lines:]
KeptLinesTail(ls, max_lines) ==
    SubSeq(ls, Len(ls) - Min(Len(ls), max_lines) + 1, Len(ls))

\* lines[:max_lines]
KeptLines(ls, max_lines) == SubSeq(ls, 1, Min(Len(ls), max_lines))

\* "truncate at min size": the code after the size loop
Fallback(toks, bw, bh, minsz, spacing) ==
    LET wrapped   == wrap_tokens_to_width(toks, minsz, bw)
        line_h    == LineH(minsz, spacing)
        max_lines == MaxLines(bh, line_h)
        truncated == Len(wrapped) > max_lines
        kept      == KeptLines(wrapped, max_lines)
    IN  IF truncated /\ kept # <<>>
        THEN LET last == EllipsisTrim(kept[Len(kept)], minsz, bw)
             IN  [font |-> minsz,
                  lines |-> [kept EXCEPT ![Len(kept)] = last \o <<ELL>>]]
        ELSE [font |-> minsz, lines |-> kept]

\* the `for size in range(start_size, min_size - 1, -2)` loop, from `size` on
RECURSIVE FitLoop(_, _, _, _, _, _)
FitLoop(toks, bw, bh, size, minsz, spacing) ==
    IF size <= minsz - 1 THEN Fallback(toks, bw, bh, minsz, spacing)
    ELSE LET wrapped == wrap_tokens_to_width(toks, size, bw)
         IN  IF FitsHeight(Len(wrapped), LineH(size, spacing), bh)
             THEN [font |-> size, lines |-> wrapped]
             ELSE FitLoop(toks, bw, bh, size - SizeStep, minsz, spacing)

fit_text_in_box(t, bw, bh, startsz, minsz, spacing) ==
    FitLoop(tokenize_mixed_text(t), bw, bh, startsz, minsz, spacing)


-----------------------------------------------------------------------------
(* draw_lines                                                              *)

\* XPos without the clamps: x + w - tw and x + (w - tw) // 2
XPosNoClamp(a, x, w, tw) ==
    IF a = "right" THEN x + w - tw
    ELSE IF a = "center" THEN x + ((w - tw) \div 2)
    ELSE x

\* xx, from align, the box's x and w, and the line's width tw
XPos(a, x, w, tw) ==
    IF a = "right" THEN Max(x, x + w - tw)
    ELSE IF a = "center" THEN x + Max(0, (w - tw) \div 2)
    ELSE x

\* a placer that always starts at the top edge of the box
StartYTop(n_lines, line_h, y, h) == y

\* the initial yy: centred when the text fits the box and there is content
StartY(n_lines, line_h, y, h) ==
    IF n_lines > 0 /\ n_lines * line_h < h /\ line_h <= h
    THEN y + ((h - n_lines * line_h) \div 2)
    ELSE y

\* the `for line in lines` loop, from yy on: the draw.text calls it makes
RECURSIVE DrawLoop(_, _, _, _, _, _)
DrawLoop(ls, yy, b, size, a, line_h) ==
    IF ls = <<>> THEN <<>>
    ELSE IF ~HasContent(Head(ls)) THEN DrawLoop(Tail(ls), yy, b, size, a, line_h)
    ELSE LET y1 == IF yy < b[2] THEN b[2] ELSE yy
         IN  IF y1 + line_h > b[2] + b[4] THEN <<>>
             ELSE << [text |-> Head(ls),
                      x |-> XPos(a, b[1], b[3], text_w(Head(ls), size)),
                      y |-> y1] >>
                  \o DrawLoop(Tail(ls), y1 + line_h, b, size, a, line_h)

draw_lines(b, ls, size, a, spacing) ==
    LET line_h == LineH(size, spacing)
    IN  DrawLoop(ls, StartY(Len(ls), line_h, b[2], b[4]), b, size, a, line_h)

-----------------------------------------------------------------------------
(* smart_split_text                                                        *)

IsTerminator(ch) == ch = DOT

\* re.split(r"\n{2,}", t): cut at every run of two line breaks or more
RECURSIVE SplitParas(_)
SplitParas(t) ==
    IF \A i \in 1..(Len(t) - 1) : ~(t[i] = NL /\ t[i + 1] = NL) THEN <<t>>
    ELSE LET i == CHOOSE j \in 1..(Len(t) - 1) :
                      /\ t[j] = NL /\ t[j + 1] = NL
                      /\ \A k \in 1..(j - 1) : ~(t[k] = NL /\ t[k + 1] = NL)
             e == CHOOSE j \in i..Len(t) :
                      /\ \A k \in i..j : t[k] = NL
                      /\ (j = Len(t) \/ t[j + 1] # NL)
         IN  <<SubSeq(t, 1, i - 1)>> \o SplitParas(From(t, e + 1))

\* re.split(r"(?<=[。！？.!?])\s*", part): cut after every terminator, the
\* whitespace that follows it removed
RECURSIVE SplitSentences(_)
SplitSentences(t) ==
    IF \A i \in 1..Len(t) : ~IsTerminator(t[i]) THEN <<t>>
    ELSE LET p == CHOOSE j \in 1..Len(t) :
                      IsTerminator(t[j]) /\ \A k \in 1..(j - 1) : ~IsTerminator(t[k])
             q == CHOOSE j \in p..Len(t) :
                      /\ \A k \in (p + 1)..j : IsSpace(t[k])
                      /\ (j = Len(t) \/ ~IsSpace(t[j + 1]))
         IN  <<SubSeq(t, 1, p)>> \o SplitSentences(From(t, q + 1))

\* "hard cut": [s[i:i+limit] for i in range(0, len(s), limit)]
RECURSIVE HardCut(_, _)
HardCut(t, lim) ==
    IF t = <<>> THEN <<>>
    ELSE IF Len(t) <= lim THEN <<t>>
    ELSE <<SubSeq(t, 1, lim)>> \o HardCut(From(t, lim + 1), lim)

\* JoinFits without the separator's length
JoinFitsNoSep(cur, sep, t, lim) == Len(cur) + Len(t) <= lim

\* `len(cur) + 1 + len(s) <= limit` and `len(cur) + 2 + len(part) <= limit`
JoinFits(cur, sep, t, lim) == Len(cur) + Len(sep) + Len(t) <= lim

\* the if/elif/else that adds piece t to cur with separator sep, or closes cur
Accumulate(st, sep, t, lim) ==
    IF st.cur = <<>> THEN [chunks |-> st.chunks, cur |-> t]
    ELSE IF JoinFits(st.cur, sep, t, lim)
    THEN [chunks |-> st.chunks, cur |-> st.cur \o sep \o t]
    ELSE [chunks |-> Append(st.chunks, st.cur), cur |-> t]

\* the `for s in sentences` loop
RECURSIVE SentencesLoop(_, _, _)
SentencesLoop(sentences, lim, st) ==
    IF sentences = <<>> THEN st
    ELSE LET t == Strip(Head(sentences))
         IN  IF t = <<>> THEN SentencesLoop(Tail(sentences), lim, st)
             ELSE IF Len(t) > lim
             THEN SentencesLoop(Tail(sentences), lim,
                                [chunks |-> st.chunks \o HardCut(t, lim), cur |-> st.cur])
             ELSE SentencesLoop(Tail(sentences), lim, Accumulate(st, <<SP>>, t, lim))

\* the `for part in parts` loop
RECURSIVE PartsLoop(_, _, _)
PartsLoop(parts, lim, st) ==
    IF parts = <<>> THEN st
    ELSE LET part == Strip(Head(parts))
         IN  IF part = <<>> THEN PartsLoop(Tail(parts), lim, st)
             ELSE IF Len(part) > lim
             THEN PartsLoop(Tail(parts), lim, SentencesLoop(SplitSentences(part), lim, st))
             ELSE PartsLoop(Tail(parts), lim, Accumulate(st, <<NL, NL>>, part, lim))

smart_split_text(t, lim) ==
    LET t1 == Strip(t)
    IN  IF Len(t1) <= lim THEN <<t1>>
        ELSE LET st == PartsLoop(SplitParas(t1), lim, [chunks |-> <<>>, cur |-> <<>>])
             IN  IF st.cur # <<>> THEN Append(st.chunks, st.cur) ELSE st.chunks

-----------------------------------------------------------------------------
(* Specification of the tokenizer alone: any text over the full alphabet.  *)

TokAlphabet == {LATIN, CJK, ELL, SP, NL, CR, TAB}

InitTok ==
    /\ pc = "start"
    /\ text \in StringsUpTo(TokAlphabet, MaxLen)
    /\ tokens = <<>>
    /\ max_width = 0 /\ box_h = 0 /\ start_size = 1 /\ min_size = 1
    /\ line_spacing = 0 /\ lines = <<>> /\ font = 1
    /\ box = <<0, 0, 0, 0>> /\ align = "left" /\ placed = <<>>
    /\ limit = 1 /\ chunks = <<>>

Tokenize ==
    /\ pc = "start"
    /\ tokens' = tokenize_mixed_text(text)
    /\ pc' = "tokenized"
    /\ UNCHANGED <<text, max_width, box_h, start_size, min_size, line_spacing,
                   lines, font, box, align, placed, limit, chunks>>

NextTok == Tokenize

SpecTok == InitTok /\ [][NextTok]_vars

\* C9: tokenize_mixed_text is lossless: the tokens concatenated in order give back
\* the text with only its line endings normalized (\r\n and \r to \n).
TokenizeLossless ==
    pc = "tokenized" => Concat(tokens) = NormalizeNewlines(text)

-----------------------------------------------------------------------------
(* Specification of the wrapper: a tokenized text wrapped at one size.      *)

\* the codepoints of the texts wrapped (tokenize_mixed_text leaves none of the
\* other whitespace in its tokens and turns \r into \n)
WrapAlphabet == {LATIN, CJK, ELL, SP, NL}

InitWrap ==
    /\ pc = "start"
    /\ text \in StringsUpTo(WrapAlphabet, MaxLen)
    /\ tokens = tokenize_mixed_text(text)
    /\ max_width \in 0..MaxBox
    /\ start_size \in 1..MaxSize
    /\ box_h = 0 /\ min_size = start_size /\ line_spacing = 0
    /\ lines = <<>> /\ font = start_size
    /\ box = <<0, 0, 0, 0>> /\ align = "left" /\ placed = <<>>
    /\ limit = 1 /\ chunks = <<>>

\* lines = wrap_tokens_to_width(draw, tokens, font, max_width), font of size start_size
Wrap ==
    /\ pc = "start"
    /\ lines' = wrap_tokens_to_width(tokens, start_size, max_width)
    /\ pc' = "wrapped"
    /\ UNCHANGED <<text, tokens, max_width, box_h, start_size, min_size, line_spacing,
                   font, box, align, placed, limit, chunks>>

NextWrap == Wrap

SpecWrap == InitWrap /\ [][NextWrap]_vars

-----------------------------------------------------------------------------
(* Specification of the sizer: a text fitted into a box over a size range.  *)

\* the values of line_spacing tried
LineSpacings == {0, 1}

\* The codepoints of the texts fitted. CJK is left out here: to the sizer it is
\* one more full-width codepoint that forms runs of its own, as the ellipsis is.
FitAlphabet == {LATIN, ELL, SP, NL}

InitFit ==
    /\ pc = "start"
    /\ text \in StringsUpTo(FitAlphabet, MaxFitLen)
    /\ tokens = <<>>
    /\ max_width \in 0..MaxBox
    /\ box_h \in 0..MaxBox
    /\ start_size \in 1..MaxSize
    /\ min_size \in 1..start_size
    /\ line_spacing \in LineSpacings
    /\ lines = <<>> /\ font = start_size
    /\ box = <<0, 0, 0, 0>> /\ align = "left" /\ placed = <<>>
    /\ limit = 1 /\ chunks = <<>>

\* font, lines = fit_text_in_box(draw, text, ..., max_width, box_h, start_size,
\*                               min_size, line_spacing)
Fit ==
    /\ pc = "start"
    /\ tokens' = tokenize_mixed_text(text)
    /\ LET r == fit_text_in_box(text, max_width, box_h, start_size, min_size,
                                line_spacing)
       IN  font' = r.font /\ lines' = r.lines
    /\ pc' = "fitted"
    /\ UNCHANGED <<text, max_width, box_h, start_size, min_size, line_spacing,
                   box, align, placed, limit, chunks>>

NextFit == Fit

SpecFit == InitFit /\ [][NextFit]_vars

-----------------------------------------------------------------------------
(* Specification of the placer: lines drawn into a box.                     *)

\* the lines handed to draw_lines: empty, blank, narrow and wide ones
DrawLineTexts == {<<>>, <<SP>>, <<LATIN>>, <<LATIN, LATIN>>}

\* the origins (x, y) of the box
BoxOrigins == {<<0, 0>>, <<1, 2>>}

Aligns == {"left", "center", "right"}

InitDraw ==
    /\ pc = "start"
    /\ text = <<>> /\ tokens = <<>>
    /\ max_width = 0 /\ box_h = 0 /\ start_size = 1 /\ min_size = 1
    /\ line_spacing \in LineSpacings
    /\ lines \in UNION {[1..n -> DrawLineTexts] : n \in 0..MaxDrawLines}
    /\ font \in 1..MaxSize
    /\ \E o \in BoxOrigins, w \in 0..MaxBox, h \in 0..MaxBox : box = <<o[1], o[2], w, h>>
    /\ align \in Aligns
    /\ placed = <<>>
    /\ limit = 1 /\ chunks = <<>>

\* draw_lines(img, box, lines, font, fill, align=align, line_spacing=line_spacing)
Draw ==
    /\ pc = "start"
    /\ placed' = draw_lines(box, lines, font, align, line_spacing)
    /\ pc' = "placed"
    /\ UNCHANGED <<text, tokens, max_width, box_h, start_size, min_size, line_spacing,
                   lines, font, box, align, limit, chunks>>

NextDraw == Draw

SpecDraw == InitDraw /\ [][NextDraw]_vars

-----------------------------------------------------------------------------
(* Specification of the chunker: a text split for the speech requests.      *)

\* A single line break is whitespace to smart_split_text exactly as a space is,
\* so the space is left out of the input alphabet.
SplitAlphabet == {LATIN, DOT, NL}

InitSplit ==
    /\ pc = "start"
    /\ text \in StringsUpTo(SplitAlphabet, MaxSplitLen)
    /\ limit \in 1..MaxLimit
    /\ tokens = <<>>
    /\ max_width = 0 /\ box_h = 0 /\ start_size = 1 /\ min_size = 1
    /\ line_spacing = 0 /\ lines = <<>> /\ font = 1
    /\ box = <<0, 0, 0, 0>> /\ align = "left" /\ placed = <<>>
    /\ chunks = <<>>

\* chunks = smart_split_text(text, limit)
SmartSplit ==
    /\ pc = "start"
    /\ chunks' = smart_split_text(text, limit)
    /\ pc' = "split"
    /\ UNCHANGED <<text, tokens, max_width, box_h, start_size, min_size, line_spacing,
                   lines, font, box, align, placed, limit>>

NextSplit == SmartSplit

SpecSplit == InitSplit /\ [][NextSplit]_vars

-----------------------------------------------------------------------------
(* Properties of the wrapper (under SpecWrap).                             *)

NonSpace(s) == SelectSeq(s, LAMBDA ch : ch # SP)

\* the paragraphs of a token sequence: the tokens between ParagraphBreak tokens,
\* each paragraph concatenated
RECURSIVE TokParas(_)
TokParas(toks) ==
    IF toks = <<>> THEN << <<>> >>
    ELSE LET rest == TokParas(Tail(toks))
         IN  IF Head(toks) = <<NL>> THEN << <<>> >> \o rest
             ELSE << Head(toks) \o Head(rest) >> \o Tail(rest)

\* lines ls, read in order, spell the paragraphs paras (spaces set aside), each
\* line inside one paragraph
RECURSIVE LinesSpell(_, _)
LinesSpell(ls, paras) ==
    IF ls = <<>> THEN \A i \in 1..Len(paras) : NonSpace(paras[i]) = <<>>
    ELSE IF NonSpace(Head(ls)) = <<>> THEN LinesSpell(Tail(ls), paras)
    ELSE IF paras = <<>> THEN FALSE
    ELSE LET l == NonSpace(Head(ls))
             p == NonSpace(Head(paras))
         IN  IF p = <<>> THEN LinesSpell(ls, Tail(paras))
             ELSE /\ Len(l) <= Len(p)
                  /\ SubSeq(p, 1, Len(l)) = l
                  /\ LinesSpell(Tail(ls), << From(p, Len(l) + 1) >> \o Tail(paras))

\* a token wider than max_width at the size used: the wrapper hard-breaks it
HasWideToken ==
    \E i \in 1..Len(tokens) :
        Len(tokens[i]) >= 2 /\ text_w(tokens[i], start_size) > max_width

\* C2: every line returned by wrap_tokens_to_width is at most max_width wide at
\* the font used, except a line of a single codepoint that alone is wider.
WidthBound ==
    pc = "wrapped" =>
        \A i \in 1..Len(lines) :
            \/ text_w(lines[i], start_size) <= max_width
            \/ Len(lines[i]) = 1 /\ CharW(lines[i][1], start_size) > max_width

\* C2 witness: a hard-broken token gave several lines, one of them filling
\* max_width exactly with more than one codepoint.
WidthBoundWitness ==
    /\ pc = "wrapped" /\ HasWideToken /\ Len(lines) >= 2
    /\ \E i \in 1..Len(lines) :
           Len(lines[i]) >= 2 /\ text_w(lines[i], start_size) = max_width

\* C5: wrap_tokens_to_width loses nothing but spaces: the lines in order hold the
\* tokens' non-space codepoints in order, none dropped, duplicated or moved, and
\* no line holds codepoints of two paragraphs.
WrapKeepsContent ==
    pc = "wrapped" => LinesSpell(lines, TokParas(tokens))

\* C5 witness: two paragraphs, one with a hard-broken token, wrapped to three
\* lines or more.
WrapKeepsContentWitness ==
    /\ pc = "wrapped" /\ HasWideToken /\ Len(lines) >= 3
    /\ \E i \in 1..Len(tokens) : tokens[i] = <<NL>>

\* the empty paragraphs of a token sequence (none when there are no tokens)
NumEmptyParas(toks) ==
    IF toks = <<>> THEN 0
    ELSE Cardinality({i \in 1..Len(TokParas(toks)) : TokParas(toks)[i] = <<>>})

NumEmptyLines(ls) == Cardinality({i \in 1..Len(ls) : ls[i] = <<>>})

\* C6 as stated: every empty paragraph of the text leaves an empty line in the
\* wrapper's output.
BlankLinesSurvive ==
    pc = "wrapped" => NumEmptyLines(lines) >= NumEmptyParas(tokens)

\* C6 as amended: the wrapper returns no empty line and no line of spaces only;
\* an empty paragraph (a ParagraphBreak on an empty buffer) leaves no line, so
\* there are no more lines than the tokens hold non-space codepoints.
BlankLinesDropped ==
    pc = "wrapped" =>
        /\ \A i \in 1..Len(lines) : NonSpace(lines[i]) # <<>>
        /\ Len(lines) <= Len(NonSpace(Concat(SelectSeq(tokens, LAMBDA t : t # <<NL>>))))

\* C6 witness: a text with an empty paragraph between two others, wrapped to
\* exactly two lines.
BlankLinesDroppedWitness ==
    /\ pc = "wrapped" /\ Len(lines) = 2
    /\ \E i \in 2..(Len(TokParas(tokens)) - 1) :
           /\ TokParas(tokens)[i] = <<>>
           /\ TokParas(tokens)[i - 1] # <<>>
           /\ TokParas(tokens)[i + 1] # <<>>

-----------------------------------------------------------------------------
(* Properties of the sizer (under SpecFit).                                *)

\* the lines of the wrap at size s, and whether they satisfy the height budget
WrapAt(s) == wrap_tokens_to_width(tokens, s, max_width)
FitsAt(s) == Len(WrapAt(s)) * (Ascent(s) + Descent(s) + line_spacing) <= box_h

\* the sizes of the descending search, start_size, start_size - 2, ...
LoopSizes == {s \in min_size..start_size : (start_size - s) % SizeStep = 0}

\* max_lines of the fallback
FallbackMaxLines ==
    LET q == box_h \div (Ascent(min_size) + Descent(min_size) + line_spacing)
    IN  IF q >= 1 THEN q ELSE 1

EndsWithEll(line) == line # <<>> /\ line[Len(line)] = ELL

\* the longest prefix p of line with measure(p + "...") <= max_width, the empty
\* prefix when none fits
LongestEllPrefix(line) ==
    LET ok == {k \in 0..Len(line) :
                  k = 0 \/ text_w(SubSeq(line, 1, k) \o <<ELL>>, min_size) <= max_width}
        k  == CHOOSE j \in ok : \A m \in ok : m <= j
    IN  SubSeq(line, 1, k)

\* C1: fit_text_in_box returns the largest of the sizes start_size,
\* start_size - 2, ..., min_size whose wrap satisfies the height budget, with all
\* the lines of that wrap and no ellipsis added.
FitLargest ==
    pc = "fitted" =>
        LET fitting == {s \in LoopSizes \cup {min_size} : FitsAt(s)}
        IN  fitting # {} =>
                /\ font \in fitting
                /\ \A s \in fitting : s <= font
                /\ lines = WrapAt(font)

\* C1 witness: start_size does not fit, a smaller size does, with two lines or more.
FitLargestWitness ==
    /\ pc = "fitted" /\ ~FitsAt(start_size) /\ font < start_size /\ font \in LoopSizes
    /\ FitsAt(font) /\ Len(lines) >= 2

\* C3: when no size of the search satisfies the height budget, fit_text_in_box
\* returns min_size and min(n, max_lines) lines, all but possibly the last being
\* the first lines of the wrap at min_size, unchanged and in order.
FallbackLines ==
    pc = "fitted" /\ (\A s \in LoopSizes : ~FitsAt(s)) =>
        LET w == WrapAt(min_size)
            n == IF Len(w) <= FallbackMaxLines THEN Len(w) ELSE FallbackMaxLines
        IN  /\ font = min_size
            /\ Len(lines) = n
            /\ \A i \in 1..(n - 1) : lines[i] = w[i]

\* C3 witness: nothing fits, two lines or more are kept and at least one is cut.
FallbackLinesWitness ==
    /\ pc = "fitted" /\ \A s \in LoopSizes : ~FitsAt(s)
    /\ Len(lines) >= 2 /\ Len(WrapAt(min_size)) > Len(lines)

\* C4 as stated: in the fallback the last line ends with the ellipsis if and only
\* if the wrap at min_size had more lines than max_lines; it is then p + "..."
\* for the longest prefix p that fits, and otherwise the wrap's last line.
EllipsisIffTruncated ==
    pc = "fitted" /\ (\A s \in LoopSizes : ~FitsAt(s)) /\ lines # <<>> =>
        LET w    == WrapAt(min_size)
            last == lines[Len(lines)]
        IN  /\ EndsWithEll(last) <=> Len(w) > FallbackMaxLines
            /\ Len(w) > FallbackMaxLines =>
                   last = LongestEllPrefix(w[FallbackMaxLines]) \o <<ELL>>
            /\ Len(w) <= FallbackMaxLines => last = w[Len(w)]

\* C4 as amended: in the fallback, when the wrap at min_size had more lines than
\* max_lines the last line is p + "..." for the longest prefix p that fits (so it
\* ends with the ellipsis); when no line was removed it is the wrap's last line
\* unchanged, which ends with an ellipsis only if the text's own line does.
EllipsisWhenTruncated ==
    pc = "fitted" /\ (\A s \in LoopSizes : ~FitsAt(s)) /\ lines # <<>> =>
        LET w    == WrapAt(min_size)
            last == lines[Len(lines)]
        IN  /\ Len(w) > FallbackMaxLines =>
                   /\ last = LongestEllPrefix(w[FallbackMaxLines]) \o <<ELL>>
                   /\ EndsWithEll(last)
            /\ Len(w) <= FallbackMaxLines => last = w[Len(w)]

\* C4 witness: lines were removed and the last kept line was shortened to a
\* non-empty prefix to make room for the ellipsis.
EllipsisWhenTruncatedWitness ==
    /\ pc = "fitted" /\ \A s \in LoopSizes : ~FitsAt(s)
    /\ Len(WrapAt(min_size)) > FallbackMaxLines
    /\ LET kept == WrapAt(min_size)[FallbackMaxLines]
           last == lines[Len(lines)]
       IN  Len(last) >= 2 /\ Len(last) <= Len(kept)

HasVisible(s) == \E i \in 1..Len(s) : ~IsSpace(s[i])

\* C7 as stated: every non-empty text gets at least one line, whatever the box;
\* only the empty text gets none.
NonEmptyTextHasLine ==
    pc = "fitted" => (Len(lines) >= 1 <=> text # <<>>)

\* C7 as amended: every text holding a codepoint that is not whitespace gets at
\* least one line, whatever the box (width 0 or height 0 included); a text that
\* is empty or holds only spaces and line breaks gets none.
VisibleTextHasLine ==
    pc = "fitted" => (Len(lines) >= 1 <=> HasVisible(text))

\* C7 witness: a visible text fitted into a box of width 0 and height 0.
VisibleTextHasLineWitness ==
    /\ pc = "fitted" /\ HasVisible(text) /\ max_width = 0 /\ box_h = 0
    /\ Len(lines) >= 1

-----------------------------------------------------------------------------
(* Properties of the placer (under SpecDraw).                              *)

\* C8: every line draw_lines places lies inside the box vertically and does not
\* start left of it, for every alignment and also when the line is wider than
\* the box; the lines are placed in input order, y advancing by line_height, and
\* once a line would cross the bottom edge no later line is placed.
PlacedInsideBox ==
    pc = "placed" =>
        LET line_h == Ascent(font) + Descent(font) + line_spacing
            vis    == SelectSeq(lines, HasVisible)
            n      == Len(placed)
        IN  /\ n <= Len(vis)
            /\ \A i \in 1..n :
                   /\ placed[i].text = vis[i]
                   /\ box[2] <= placed[i].y
                   /\ placed[i].y + line_h <= box[2] + box[4]
                   /\ placed[i].x >= box[1]
            /\ \A i \in 1..(n - 1) : placed[i + 1].y = placed[i].y + line_h
            /\ n < Len(vis) =>
                   IF n = 0 THEN line_h > box[4]
                   ELSE placed[n].y + 2 * line_h > box[2] + box[4]

\* C8 witness: right-aligned lines, one of them wider than the box, two placed
\* and a third dropped at the bottom edge.
PlacedInsideBoxWitness ==
    /\ pc = "placed" /\ align = "right"
    /\ Len(placed) = 2 /\ Len(SelectSeq(lines, HasVisible)) = 3
    /\ \E i \in 1..Len(placed) : text_w(placed[i].text, font) > box[3]

-----------------------------------------------------------------------------
(* Properties of the chunker (under SpecSplit).                            *)

\* C10: every chunk smart_split_text returns is at most limit codepoints long,
\* whichever path produced it.
ChunksWithinLimit ==
    pc = "split" => \A i \in 1..Len(chunks) : Len(chunks[i]) <= limit

\* C10 witness: the text holds a run of letters longer than limit, which is
\* hard cut, and one chunk is two sentences joined by a space to exactly limit
\* codepoints.
ChunksWithinLimitWitness ==
    /\ pc = "split" /\ Len(chunks) >= 3
    /\ \E i \in 1..(Len(text) - limit) : \A k \in i..(i + limit) : text[k] = LATIN
    /\ \E i \in 1..Len(chunks) :
           /\ Len(chunks[i]) = limit
           /\ \E k \in 1..Len(chunks[i]) : chunks[i][k] = SP

-----------------------------------------------------------------------------
(* Leading spaces of wrapped lines (under SpecWrap).                       *)

\* C11: no line wrap_tokens_to_width returns begins with a space: a space
\* token that arrives while the current-line buffer is empty, at the start of
\* a paragraph or right after a line was flushed, is discarded.
NoLeadingSpace ==
    pc = "wrapped" => \A i \in 1..Len(lines) : Head(lines[i]) # SP

-----------------------------------------------------------------------------
(* Vertical start of the placement (under SpecDraw).                       *)

\* the y0 of a placer that takes a vertical_centering switch: centred when the
\* switch is set and the lines are less high than the box, else the top edge
SwitchedY0(vertical_centering, n_lines, line_h, y, h) ==
    IF vertical_centering /\ n_lines * line_h < h
    THEN y + ((h - n_lines * line_h) \div 2)
    ELSE y

\* C12 as stated: the vertical start is selected by a boolean
\* vertical_centering: whichever value it has, the first line is placed at
\* y0 = box.y + (box.height - line_count * line_height) / 2 when it is set and
\* line_count * line_height < box.height, and at y0 = box.y in every other
\* case, in particular whenever it is not set.
VerticalStartBySwitch ==
    \A vertical_centering \in BOOLEAN :
        (pc = "placed" /\ placed # <<>>) =>
            placed[1].y = SwitchedY0(vertical_centering, Len(lines),
                                     LineH(font, line_spacing), box[2], box[4])

\* C12 amended: draw_lines takes no vertical_centering switch and always
\* centres: when line_count * line_height < box.height the first line drawn is
\* at y0 = box.y + (box.height - line_count * line_height) / 2 (rounded down),
\* and one is drawn if any line is not blank; in every other case the first
\* line drawn is at y0 = box.y.
VerticalStartCentred ==
    pc = "placed" =>
        LET line_h == LineH(font, line_spacing)
            total  == Len(lines) * line_h
        IN  /\ placed # <<>> =>
                   placed[1].y = IF total < box[4]
                                 THEN box[2] + ((box[4] - total) \div 2)
                                 ELSE box[2]
            /\ (total < box[4] /\ \E i \in 1..Len(lines) : HasVisible(lines[i]))
                   => placed # <<>>

\* C12 witness: lines less high than the box, in a box whose origin is not 0,
\* are drawn with the first line below the top edge.
VerticalStartCentredWitness ==
    /\ pc = "placed" /\ placed # <<>> /\ box[2] > 0
    /\ Len(lines) * LineH(font, line_spacing) < box[4]
    /\ placed[1].y > box[2]

-----------------------------------------------------------------------------
(* Order of the chunks (under SpecSplit).                                  *)

\* the codepoints of s that are not whitespace, in order
NonWhite(s) == SelectSeq(s, LAMBDA ch : ~IsSpace(ch))

\* C13: smart_split_text keeps the text's order: for every text longer than
\* limit, the chunks in list order hold the text's non-whitespace characters
\* in their original order, also when a sentence longer than limit is hard cut
\* while shorter sentences before it are still being accumulated.
ChunksKeepOrder ==
    (pc = "split" /\ Len(Strip(text)) > limit) =>
        NonWhite(Concat(chunks)) = NonWhite(text)

====
